---- MODULE Spec2Model ----
(***************************************************************************)
(* Model of app.py: the POST /generate-avatar handler and the helpers it   *)
(* calls (create_avatar_job, poll_avatar_job, download_file,               *)
(* upload_to_cloudinary).  One behaviour is the handling of one request:   *)
(* the request is fixed in the initial state, every step is one stretch of *)
(* the handler between two blocking calls, and the outcome of each         *)
(* external call is chosen by the environment.                             *)
(***************************************************************************)
EXTENDS Integers, Sequences, FiniteSets, TLC

VARIABLES
    request,    \* the inbound HTTP request: X-API-Key header and body
    pc,         \* position of the handler
    loc,        \* the handler's local variables
    clock,      \* time.time(), in seconds
    deadline,   \* poll_avatar_job's deadline
    pollStart,  \* time.time() when poll_avatar_job was entered
    files,      \* temporary files that exist on disk
    log,        \* every external call, sleep and unlink made so far, in order
    payload,    \* the JSON payload of the job submission
    checks,     \* the validation checks evaluated so far, in order
    resp        \* the HTTP response (status 0: none yet)

vars == <<request, pc, loc, clock, deadline, pollStart, files, log, payload, checks, resp>>

-----------------------------------------------------------------------------
(* Bounds of the model *)

\* longest time, in seconds, that passes between two tests of the polling loop
\* beyond the interval slept: the status request and a late wake-up
MaxDelay == 500
\* time.time() when the request arrives
StartClock == 1000
\* cap on the number of logged events; never reached by the program
MaxLog == 260

(* Program constants *)

TIMEOUT == 600
INTERVAL == 5
API_KEY == "k-good"
DEFAULT_VOICE == "th-TH-NiwatNeural"
DEFAULT_CHARACTER == "harry"
DEFAULT_STYLE == "casual"
WHITE == "#FFFFFFFF"

AVATARS ==
    [c \in {"harry", "jeff", "lisa", "lori", "max", "meg"} |->
        CASE c = "harry" -> <<"business", "casual", "youthful">>
          [] c = "jeff"  -> <<"business", "formal">>
          [] c = "lisa"  -> <<"casual-sitting", "graceful-sitting", "graceful-standing",
                              "technical-sitting", "technical-standing">>
          [] c = "lori"  -> <<"casual", "graceful", "formal">>
          [] c = "max"   -> <<"business", "casual", "formal">>
          [] c = "meg"   -> <<"formal", "casual", "business">>]

VOICES ==
    [g \in {"female", "male"} |->
        CASE g = "female" -> <<"th-TH-PremwadeeNeural", "th-TH-AcharaNeural">>
          [] g = "male"   -> <<"th-TH-NiwatNeural">>]

Range(s) == {s[i] : i \in DOMAIN s}

ALL_VOICES == UNION {Range(VOICES[g]) : g \in DOMAIN VOICES}

-----------------------------------------------------------------------------
(* JSON values.  t = "absent": the key is not in the object; "null": JSON   *)
(* null (None); "str": a string s.  A text is a sequence of characters.     *)

Absent == [t |-> "absent", s |-> ""]
Null == [t |-> "null", s |-> ""]
Str(s) == [t |-> "str", s |-> s]
AbsentText == [t |-> "absent", s |-> <<>>]
NullText == [t |-> "null", s |-> <<>>]
Text(s) == [t |-> "str", s |-> s]

\* dict.get(key, default)
Get(d, k, default) == IF d[k].t = "absent" THEN default ELSE d[k]

\* Python truthiness of None / str
Truthy(v) == v.t = "str" /\ v.s # ""

IsSpace(c) == c \in {" ", "\t", "\n"}

RECURSIVE LStrip(_)
LStrip(s) == IF s # <<>> /\ IsSpace(Head(s)) THEN LStrip(Tail(s)) ELSE s

RECURSIVE RStrip(_)
RStrip(s) ==
    IF s # <<>> /\ IsSpace(s[Len(s)]) THEN RStrip(SubSeq(s, 1, Len(s) - 1)) ELSE s

\* the text taken as sent, its surrounding whitespace kept
StripNone(s) == s

\* str.strip()
Strip(s) == RStrip(LStrip(s))

-----------------------------------------------------------------------------
(* The requests handled *)

HeaderVals == {Absent, Str(""), Str("k-bad"), Str(API_KEY)}
KeyVals == {Absent, Str("k-bad"), Str(API_KEY)}
TextVals == {AbsentText, NullText, Text(<<>>), Text(<<" ", "\t">>),
             Text(<<" ", "h", " ", "i", "\n">>)}
VoiceVals == {Absent, Str("th-TH-AcharaNeural"), Str("en-US-JennyNeural")}
CharacterVals == {Absent, Str("jeff"), Str("nobody")}
StyleVals == {Absent, Str("formal"), Str("fancy")}
BackgroundVals == {Absent, Str("https://img/bg.png")}

NoFields ==
    [key |-> Absent, text |-> AbsentText, voice |-> Absent,
     talkingAvatarCharacter |-> Absent, talkingAvatarStyle |-> Absent,
     background |-> Absent]

\* kind "none": no JSON content type; "malformed": JSON content type, body does
\* not parse; "null": the JSON value null; "array": a non-empty JSON array;
\* "object": a JSON object with the fields obj
Bodies ==
    {[kind |-> k, obj |-> NoFields] : k \in {"none", "malformed", "null", "array"}}
    \cup
    {[kind |-> "object", obj |-> o] :
        o \in [key : KeyVals, text : TextVals, voice : VoiceVals,
               talkingAvatarCharacter : CharacterVals,
               talkingAvatarStyle : StyleVals, background : BackgroundVals]}

Requests == [header : HeaderVals, body : Bodies]

NoLoc ==
    [text |-> <<>>, voice |-> "", character |-> "", style |-> "", background |-> Absent,
     job_id |-> "", video_url |-> "", local_path |-> "", cloudinary_url |-> ""]

NoResp == [status |-> 0, error |-> "", video_url |-> "", job_id |-> ""]

NoPayload ==
    [content |-> <<>>, voice |-> "", talkingAvatarCharacter |-> "",
     talkingAvatarStyle |-> "", backgroundImage |-> "", backgroundColor |-> ""]

-----------------------------------------------------------------------------
(* Authentication, lines 150-152 *)

\* request.json: the parsed body, or the response of the error it raises.
\* Without a JSON content type Flask either aborts with 415 or returns None,
\* depending on its version; a body that does not parse aborts with 400.
RequestJson(body) ==
    CASE body.kind = "none" ->
            {[ok |-> FALSE, status |-> 415, isDict |-> FALSE, obj |-> NoFields],
             [ok |-> TRUE, status |-> 0, isDict |-> FALSE, obj |-> NoFields]}
      [] body.kind = "malformed" ->
            {[ok |-> FALSE, status |-> 400, isDict |-> FALSE, obj |-> NoFields]}
      [] body.kind \in {"null", "array"} ->
            {[ok |-> TRUE, status |-> 0, isDict |-> FALSE, obj |-> NoFields]}
      [] body.kind = "object" ->
            {[ok |-> TRUE, status |-> 0, isDict |-> TRUE, obj |-> body.obj]}

\* the response a failed lookup of the key gives; status 0: the key is accepted
KeyCheck(provided_key) ==
    IF provided_key = Str(API_KEY)
    THEN [status |-> 0, error |-> ""]
    ELSE [status |-> 401, error |-> "Invalid or missing API key"]

\* provided_key = request.headers.get("X-API-Key") or request.json.get("key")
AuthResults(req) ==
    IF Truthy(req.header)
    THEN {KeyCheck(req.header)}
    ELSE {IF ~j.ok THEN [status |-> j.status, error |-> "HTTPException"]
          ELSE IF ~j.isDict THEN [status |-> 500, error |-> "AttributeError"]
          ELSE KeyCheck(Get(j.obj, "key", Null)) : j \in RequestJson(req.body)}

Respond(r) ==
    /\ resp' = r
    /\ pc' = "done"

Auth ==
    /\ pc = "auth"
    /\ \E r \in AuthResults(request) :
          IF r.status = 0
          THEN /\ pc' = "validate"
               /\ UNCHANGED resp
          ELSE Respond([NoResp EXCEPT !.status = r.status, !.error = r.error])
    /\ UNCHANGED <<request, loc, clock, deadline, pollStart, files, log, payload, checks>>

-----------------------------------------------------------------------------
(* Validation, lines 155-173 *)

\* request.get_json(silent=True) or {}
SilentJson(body) ==
    CASE body.kind \in {"none", "malformed", "null"} -> [isDict |-> TRUE, obj |-> NoFields]
      [] body.kind = "array" -> [isDict |-> FALSE, obj |-> NoFields]
      [] body.kind = "object" -> [isDict |-> TRUE, obj |-> body.obj]

Reject(status, error, done) ==
    [status |-> status, error |-> error, checks |-> done, text |-> <<>>, voice |-> "",
     character |-> "", style |-> "", background |-> Absent]

\* the character checked before the voice
ValidateSwapped(data) ==
    LET raw == Get(data, "text", Text(<<>>))
        voice == Get(data, "voice", Str(DEFAULT_VOICE))
        character == Get(data, "talkingAvatarCharacter", Str(DEFAULT_CHARACTER))
        style == Get(data, "talkingAvatarStyle", Str(DEFAULT_STYLE))
    IN  IF raw.t # "str" THEN Reject(500, "AttributeError", <<>>)
        ELSE IF Strip(raw.s) = <<>> THEN Reject(400, "Missing 'text' field", <<"text">>)
        ELSE IF ~(character.t = "str" /\ character.s \in DOMAIN AVATARS)
             THEN Reject(400, "Invalid character", <<"text", "character">>)
        ELSE IF ~(voice.t = "str" /\ voice.s \in ALL_VOICES)
             THEN Reject(400, "Invalid voice", <<"text", "character", "voice">>)
        ELSE IF ~(style.t = "str" /\ style.s \in Range(AVATARS[character.s]))
             THEN Reject(400, "Invalid style", <<"text", "character", "voice", "style">>)
        ELSE [status |-> 0, error |-> "", checks |-> <<"text", "character", "voice", "style">>,
              text |-> Strip(raw.s), voice |-> voice.s, character |-> character.s,
              style |-> style.s, background |-> Get(data, "background", Null)]

\* the checks of lines 156-173 on the dict data; status 0: the request is valid
Validate(data) ==
    LET raw == Get(data, "text", Text(<<>>))
        voice == Get(data, "voice", Str(DEFAULT_VOICE))
        character == Get(data, "talkingAvatarCharacter", Str(DEFAULT_CHARACTER))
        style == Get(data, "talkingAvatarStyle", Str(DEFAULT_STYLE))
    IN  IF raw.t # "str" THEN Reject(500, "AttributeError", <<>>)
        ELSE IF Strip(raw.s) = <<>> THEN Reject(400, "Missing 'text' field", <<"text">>)
        ELSE IF ~(voice.t = "str" /\ voice.s \in ALL_VOICES)
             THEN Reject(400, "Invalid voice", <<"text", "voice">>)
        ELSE IF ~(character.t = "str" /\ character.s \in DOMAIN AVATARS)
             THEN Reject(400, "Invalid character", <<"text", "voice", "character">>)
        ELSE IF ~(style.t = "str" /\ style.s \in Range(AVATARS[character.s]))
             THEN Reject(400, "Invalid style", <<"text", "voice", "character", "style">>)
        ELSE [status |-> 0, error |-> "", checks |-> <<"text", "voice", "character", "style">>,
              text |-> Strip(raw.s), voice |-> voice.s, character |-> character.s,
              style |-> style.s, background |-> Get(data, "background", Null)]

ValidateStep ==
    /\ pc = "validate"
    /\ LET j == SilentJson(request.body)
           v == IF j.isDict THEN Validate(j.obj) ELSE Reject(500, "AttributeError", <<>>)
       IN  /\ checks' = v.checks
           /\ IF v.status = 0
              THEN /\ loc' = [loc EXCEPT !.text = v.text, !.voice = v.voice,
                                         !.character = v.character, !.style = v.style,
                                         !.background = v.background]
                   /\ pc' = "submit"
                   /\ UNCHANGED resp
              ELSE /\ Respond([NoResp EXCEPT !.status = v.status, !.error = v.error])
                   /\ UNCHANGED loc
    /\ UNCHANGED <<request, clock, deadline, pollStart, files, log, payload>>

-----------------------------------------------------------------------------
(* Exceptions and the except clauses, lines 197-202 *)

\* the classes an exception is an instance of
Ancestors(exc) ==
    CASE exc = "TimeoutError"    -> {"TimeoutError", "OSError", "Exception"}
      [] exc = "RuntimeError"    -> {"RuntimeError", "Exception"}
      [] exc = "HTTPError"       -> {"HTTPError", "RequestException", "OSError", "Exception"}
      [] exc = "ConnectionError" -> {"ConnectionError", "RequestException", "OSError", "Exception"}
      [] exc = "CloudinaryError" -> {"CloudinaryError", "Exception"}

ExceptStatus(exc) ==
    IF "TimeoutError" \in Ancestors(exc) THEN 504
    ELSE IF "RuntimeError" \in Ancestors(exc) THEN 502
    ELSE 500

Raise(exc) == Respond([NoResp EXCEPT !.status = ExceptStatus(exc), !.error = exc])

Event(op, arg, res, val, dur) == [op |-> op, arg |-> arg, res |-> res, val |-> val, dur |-> dur]

Delays == {0, MaxDelay}

-----------------------------------------------------------------------------
(* create_avatar_job, lines 63-96, and the entry of poll_avatar_job, 101-103 *)

JobIds == {"job-a", "job-b"}

Payload(text, voice, character, style, background) ==
    [content |-> text, voice |-> voice, talkingAvatarCharacter |-> character,
     talkingAvatarStyle |-> style,
     backgroundImage |-> IF Truthy(background) THEN background.s ELSE "",
     backgroundColor |-> IF Truthy(background) THEN "" ELSE WHITE]

\* deadline = time.time() + timeout
Deadline(now, timeout) == now + timeout

Submit ==
    /\ pc = "submit"
    /\ \E id \in JobIds, out \in {"ok", "http_error", "conn_error"} :
          /\ payload' = Payload(loc.text, loc.voice, loc.character, loc.style, loc.background)
          /\ log' = Append(log, Event("submit", id, out, "", 0))
          /\ CASE out = "ok" ->
                    /\ loc' = [loc EXCEPT !.job_id = id]
                    /\ pollStart' = clock
                    /\ deadline' = Deadline(clock, TIMEOUT)
                    /\ pc' = "poll"
                    /\ UNCHANGED resp
               [] out = "http_error" ->
                    /\ Raise("RuntimeError")
                    /\ UNCHANGED <<loc, pollStart, deadline>>
               [] out = "conn_error" ->
                    /\ Raise("ConnectionError")
                    /\ UNCHANGED <<loc, pollStart, deadline>>
    /\ UNCHANGED <<request, clock, files, checks>>

-----------------------------------------------------------------------------
(* poll_avatar_job, lines 105-121 *)

ResultUrls == {"https://az/r1", "https://az/r2"}

\* what one status request can give: an error, or the job's status and result
PollReplies ==
    {[res |-> r, val |-> ""] : r \in {"conn_error", "http_error", "Running", "Failed", "Succeeded"}}
    \cup {[res |-> "Succeeded", val |-> u] : u \in ResultUrls}

\* the loop left one interval early
LoopCondEarly(now, dl) == now + INTERVAL < dl

\* the loop never left by the clock
LoopCondAlways(now, dl) == TRUE

\* while time.time() < deadline
LoopCond(now, dl) == now < dl

\* the status compared with a word the provider never sends
PollDispatchTypo(reply) ==
    CASE reply.res = "conn_error" -> [kind |-> "raise", exc |-> "ConnectionError", url |-> ""]
      [] reply.res = "http_error" -> [kind |-> "raise", exc |-> "HTTPError", url |-> ""]
      [] reply.res = "Failed" -> [kind |-> "raise", exc |-> "RuntimeError", url |-> ""]
      [] OTHER -> [kind |-> "sleep", exc |-> "", url |-> ""]

\* a failed job polled again
PollDispatchRetry(reply) ==
    CASE reply.res = "conn_error" -> [kind |-> "raise", exc |-> "ConnectionError", url |-> ""]
      [] reply.res = "http_error" -> [kind |-> "raise", exc |-> "HTTPError", url |-> ""]
      [] reply.res = "Succeeded" ->
            IF reply.val = ""
            THEN [kind |-> "raise", exc |-> "RuntimeError", url |-> ""]
            ELSE [kind |-> "return", exc |-> "", url |-> reply.val]
      [] OTHER -> [kind |-> "sleep", exc |-> "", url |-> ""]

\* lines 107-119 on the reply of the status request
PollDispatch(reply) ==
    CASE reply.res = "conn_error" -> [kind |-> "raise", exc |-> "ConnectionError", url |-> ""]
      [] reply.res = "http_error" -> [kind |-> "raise", exc |-> "HTTPError", url |-> ""]
      [] reply.res = "Succeeded" ->
            IF reply.val = ""
            THEN [kind |-> "raise", exc |-> "RuntimeError", url |-> ""]
            ELSE [kind |-> "return", exc |-> "", url |-> reply.val]
      [] reply.res = "Failed" -> [kind |-> "raise", exc |-> "RuntimeError", url |-> ""]
      [] OTHER -> [kind |-> "sleep", exc |-> "", url |-> ""]

Poll ==
    /\ pc = "poll"
    /\ IF LoopCond(clock, deadline)
       THEN /\ Len(log) < MaxLog
            /\ \E reply \in PollReplies :
                  LET d == PollDispatch(reply)
                  IN  /\ log' = Append(log, Event("poll", loc.job_id, reply.res, reply.val, 0))
                      /\ CASE d.kind = "return" ->
                                /\ loc' = [loc EXCEPT !.video_url = d.url]
                                /\ pc' = "download"
                                /\ UNCHANGED resp
                           [] d.kind = "raise" ->
                                /\ Raise(d.exc)
                                /\ UNCHANGED loc
                           [] d.kind = "sleep" ->
                                /\ pc' = "sleep"
                                /\ UNCHANGED <<loc, resp>>
       ELSE /\ Raise("TimeoutError")
            /\ UNCHANGED <<loc, log>>
    /\ UNCHANGED <<request, clock, deadline, pollStart, files, payload, checks>>

\* time.sleep(interval): the thread sleeps for the interval at least
Sleep ==
    /\ pc = "sleep"
    /\ Len(log) < MaxLog
    /\ log' = Append(log, Event("sleep", "", "", "", INTERVAL))
    /\ \E delay \in Delays : clock' = clock + INTERVAL + delay
    /\ pc' = "poll"
    /\ UNCHANGED <<request, loc, deadline, pollStart, files, payload, checks, resp>>

-----------------------------------------------------------------------------
(* download_file, lines 124-132; upload_to_cloudinary, 135-143; 189-195 *)

TempNames == {"/tmp/tmp1.mp4"}
HostedUrls == {"https://res/h1"}

Download ==
    /\ pc = "download"
    /\ \E out \in {"ok", "http_error", "conn_error"} :
          CASE out = "ok" ->
                  \E path \in TempNames \ files :
                      /\ files' = files \cup {path}
                      /\ loc' = [loc EXCEPT !.local_path = path]
                      /\ log' = Append(log, Event("download", loc.video_url, out, path, 0))
                      /\ pc' = "upload"
                      /\ UNCHANGED resp
            [] out = "http_error" ->
                  /\ log' = Append(log, Event("download", loc.video_url, out, "", 0))
                  /\ Raise("HTTPError")
                  /\ UNCHANGED <<loc, files>>
            [] out = "conn_error" ->
                  /\ log' = Append(log, Event("download", loc.video_url, out, "", 0))
                  /\ Raise("ConnectionError")
                  /\ UNCHANGED <<loc, files>>
    /\ UNCHANGED <<request, clock, deadline, pollStart, payload, checks>>

Upload ==
    /\ pc = "upload"
    /\ \/ \E url \in HostedUrls :
            /\ log' = Append(log, Event("upload", loc.local_path, "ok", url, 0))
            /\ loc' = [loc EXCEPT !.cloudinary_url = url]
            /\ pc' = "cleanup"
            /\ UNCHANGED resp
       \/ /\ log' = Append(log, Event("upload", loc.local_path, "cloudinary_error", "", 0))
          /\ Raise("CloudinaryError")
          /\ UNCHANGED loc
    /\ UNCHANGED <<request, clock, deadline, pollStart, files, payload, checks>>

\* the file left in place
UnlinkNothing(fs, path) == fs

\* os.unlink(path)
Unlink(fs, path) == fs \ {path}

\* the provider's URL answered instead of the hosted one
SuccessBodyProviderUrl(l) ==
    [status |-> 200, error |-> "", video_url |-> l.video_url, job_id |-> l.job_id]

\* the body of the 200 response, lines 191-195
SuccessBody(l) ==
    [status |-> 200, error |-> "", video_url |-> l.cloudinary_url, job_id |-> l.job_id]

Finish ==
    /\ pc = "cleanup"
    /\ files' = Unlink(files, loc.local_path)
    /\ log' = Append(log, Event("unlink", loc.local_path, "ok", "", 0))
    /\ Respond(SuccessBody(loc))
    /\ UNCHANGED <<request, loc, clock, deadline, pollStart, payload, checks>>

-----------------------------------------------------------------------------
Init ==
    /\ request \in Requests
    /\ pc = "auth"
    /\ loc = NoLoc
    /\ clock = StartClock
    /\ deadline = 0
    /\ pollStart = 0
    /\ files = {}
    /\ log = <<>>
    /\ payload = NoPayload
    /\ checks = <<>>
    /\ resp = NoResp

Next ==
    \/ Auth
    \/ ValidateStep
    \/ Submit
    \/ Poll
    \/ Sleep
    \/ Download
    \/ Upload
    \/ Finish

Spec == Init /\ [][Next]_vars

\* the handler's thread keeps running: a step that can be taken is taken
FairSpec == Spec /\ WF_vars(Next)

TypeOK ==
    /\ pc \in {"auth", "validate", "submit", "poll", "sleep", "download", "upload", "cleanup", "done"}
    /\ Len(log) < MaxLog

-----------------------------------------------------------------------------
(* Vocabulary of the properties *)

LastEvent == log[Len(log)]
NumOps(op) == Cardinality({i \in DOMAIN log : log[i].op = op})
ExternalOps == {"submit", "poll", "download", "upload"}
NumExternal == Cardinality({i \in DOMAIN log : log[i].op \in ExternalOps})
Done == pc = "done"

\* the key a request carries: the X-API-Key header, else the body field 'key'
CarriedKey(req) ==
    IF req.header.t = "str" /\ req.header.s # "" THEN req.header
    ELSE IF req.body.kind = "object" THEN req.body.obj.key
    ELSE Absent
KeyGood(req) == CarriedKey(req) = Str(API_KEY)

\* the fields of the request body; a body that is no JSON object has none
Fields(req) == IF req.body.kind = "object" THEN req.body.obj ELSE NoFields
\* the body, when JSON, is an object or null, and the text, when given, is a string
WellTyped(req) == req.body.kind # "array" /\ Fields(req).text.t # "null"

GivenVoice(d) == IF d.voice.t = "absent" THEN DEFAULT_VOICE ELSE d.voice.s
GivenCharacter(d) ==
    IF d.talkingAvatarCharacter.t = "absent" THEN DEFAULT_CHARACTER
    ELSE d.talkingAvatarCharacter.s
GivenStyle(d) ==
    IF d.talkingAvatarStyle.t = "absent" THEN DEFAULT_STYLE ELSE d.talkingAvatarStyle.s

TextOk(d) == d.text.t = "str" /\ \E i \in DOMAIN d.text.s : ~IsSpace(d.text.s[i])
VoiceOk(d) == GivenVoice(d) \in ALL_VOICES
CharacterOk(d) == GivenCharacter(d) \in DOMAIN AVATARS
StyleOk(d) ==
    /\ CharacterOk(d)
    /\ \E i \in DOMAIN AVATARS[GivenCharacter(d)] : AVATARS[GivenCharacter(d)][i] = GivenStyle(d)
CheckOk(name, d) ==
    CASE name = "text" -> TextOk(d)
      [] name = "voice" -> VoiceOk(d)
      [] name = "character" -> CharacterOk(d)
      [] name = "style" -> StyleOk(d)
CheckOrder == <<"text", "voice", "character", "style">>
CheckError(name) ==
    CASE name = "text" -> "Missing 'text' field"
      [] name = "voice" -> "Invalid voice"
      [] name = "character" -> "Invalid character"
      [] name = "style" -> "Invalid style"
FailsValidation(req) ==
    \E i \in DOMAIN CheckOrder : ~CheckOk(CheckOrder[i], Fields(req))

-----------------------------------------------------------------------------
(* C1: every request whose API key is missing or differs from the          *)
(* configured key is answered with 401, whatever its body is: absent, not  *)
(* JSON, JSON but no object, or an object with invalid fields.             *)
C1_BadKeyAnswered401 ==
    (Done /\ ~KeyGood(request)) => resp.status = 401

C3_ProviderRejection502 ==
    (/\ Done
     /\ log # <<>>
     /\ \/ LastEvent.op \in {"submit", "download"} /\ LastEvent.res = "http_error"
        \/ LastEvent.op = "upload" /\ LastEvent.res = "cloudinary_error"
        \/ LastEvent.op = "poll" /\ LastEvent.res = "Failed")
    => resp.status = 502

(* C4: the timeout error of poll_avatar_job is raised only when at least   *)
(* TIMEOUT seconds have passed since polling started, it is answered with  *)
(* 504, and a job that every status request found unfinished ends with it. *)
C4_TimeoutAtOrAfterDeadline ==
    /\ resp.error = "TimeoutError" => (resp.status = 504 /\ clock - pollStart >= TIMEOUT)
    /\ resp.status = 504 => resp.error = "TimeoutError"
    /\ (Done /\ log # <<>> /\ LastEvent.op = "sleep")
          => (resp.status = 504 /\ clock - pollStart >= TIMEOUT)

C4_Witness ==
    /\ Done
    /\ resp.status = 504
    /\ clock - pollStart > TIMEOUT
    /\ NumOps("poll") > 1

(* C5: when the Nth status request is the first to report Succeeded with a *)
(* result URL, poll_avatar_job returns that URL at once: the log then      *)
(* holds the submission, N status requests and N-1 sleeps of INTERVAL      *)
(* seconds, one between each two consecutive requests, and no status       *)
(* request or sleep is ever made after the Nth.                            *)
C5_ReturnsOnNthPoll ==
    /\ (log # <<>> /\ LastEvent.op = "poll" /\ LastEvent.res = "Succeeded" /\ LastEvent.val # "")
          => /\ pc = "download"
             /\ loc.video_url = LastEvent.val
             /\ Len(log) = 2 * NumOps("poll")
             /\ NumOps("sleep") = NumOps("poll") - 1
             /\ \A i \in 2..Len(log) :
                   IF i % 2 = 0
                   THEN log[i].op = "poll" /\ (i < Len(log) => log[i].res = "Running")
                   ELSE log[i].op = "sleep" /\ log[i].dur = INTERVAL
    /\ \A i \in 1..(Len(log) - 1) :
          (log[i].op = "poll" /\ log[i].res = "Succeeded" /\ log[i].val # "")
             => log[i + 1].op \notin {"poll", "sleep"}
    /\ pc \in {"download", "upload", "cleanup"} \/ resp.status = 200
          => \E i \in DOMAIN log :
                /\ log[i].op = "poll" /\ log[i].res = "Succeeded" /\ log[i].val = loc.video_url
                /\ \A j \in (i + 1)..Len(log) : log[j].op \notin {"poll", "sleep"}

C5_Witness ==
    /\ pc = "download"
    /\ NumOps("poll") = 3
    /\ NumOps("sleep") = 2
    /\ loc.video_url = "https://az/r2"

(* C6: a 200 response is returned only after one job submission, status    *)
(* requests and sleeps ending with a request that saw Succeeded with a     *)
(* non-empty result URL, one download of that URL, one upload of the       *)
(* downloaded file and the deletion of that file, in this order; its       *)
(* video_url is the URL the upload returned and its job_id is the          *)
(* identifier of the submission and of every status request.               *)
C6_SuccessAfterFullPipeline ==
    resp.status = 200 =>
        LET n == Len(log)
        IN  /\ n >= 5
            /\ log[1].op = "submit" /\ log[1].res = "ok"
            /\ \A i \in 2..(n - 4) : log[i].op \in {"poll", "sleep"}
            /\ log[n - 3].op = "poll" /\ log[n - 3].res = "Succeeded" /\ log[n - 3].val # ""
            /\ log[n - 2].op = "download" /\ log[n - 2].res = "ok"
            /\ log[n - 2].arg = log[n - 3].val
            /\ log[n - 1].op = "upload" /\ log[n - 1].res = "ok"
            /\ log[n - 1].arg = log[n - 2].val
            /\ log[n].op = "unlink" /\ log[n].arg = log[n - 2].val
            /\ log[n - 2].val \notin files
            /\ resp.video_url = log[n - 1].val
            /\ resp.job_id = log[1].arg
            /\ \A i \in DOMAIN log : log[i].op = "poll" => log[i].arg = log[1].arg

C6_Witness ==
    /\ resp.status = 200
    /\ NumOps("poll") >= 2
    /\ resp.job_id = "job-b"

(* C7: submission, download and upload are each made at most once; a       *)
(* failed provider call and a status request that saw Failed are the last  *)
(* event of the request; a status request is followed by another only when *)
(* it saw a status that is neither Succeeded nor Failed.                   *)
FailedResults == {"http_error", "conn_error", "cloudinary_error", "Failed"}

C7_NoRetries ==
    /\ NumOps("submit") <= 1
    /\ NumOps("download") <= 1
    /\ NumOps("upload") <= 1
    /\ \A i \in 1..(Len(log) - 1) : log[i].res \notin FailedResults
    /\ (log # <<>> /\ LastEvent.res \in FailedResults) => Done
    /\ \A i \in 1..(Len(log) - 1) :
          (log[i].op = "poll" /\ log[i + 1].op \in {"poll", "sleep"})
             => log[i].res \notin ({"Succeeded"} \cup FailedResults)

C7_Witness ==
    /\ Done
    /\ NumOps("poll") >= 2
    /\ LastEvent.op = "poll"
    /\ LastEvent.res = "Failed"

(* C8: when the response is returned the temporary file of the download is *)
(* gone if the upload succeeded, and still exists if the download          *)
(* succeeded and the upload failed.                                        *)
C8_TempFileOnlyRemovedOnSuccess ==
    Done =>
        /\ resp.status = 200 => (loc.local_path # "" /\ files = {})
        /\ (log # <<>> /\ LastEvent.op = "upload" /\ LastEvent.res # "ok")
              => (loc.local_path \in files /\ resp.status # 200)

C8_Witness ==
    /\ Done
    /\ log # <<>>
    /\ LastEvent.op = "upload"
    /\ LastEvent.res = "cloudinary_error"
    /\ loc.local_path \in files

(* C9: validation evaluates text, voice, character, style in this order    *)
(* and stops at the first check that fails: the 400 response carries that  *)
(* check's error and no later check has been evaluated.                    *)
C9_FirstFailingCheckReported ==
    checks # <<>> =>
        LET n == Len(checks)
        IN  /\ checks = SubSeq(CheckOrder, 1, n)
            /\ \A i \in 1..(n - 1) : CheckOk(checks[i], Fields(request))
            /\ IF CheckOk(checks[n], Fields(request))
               THEN n = Len(CheckOrder) /\ resp.status # 400
               ELSE resp.status = 400 /\ resp.error = CheckError(checks[n])

C9_Witness ==
    /\ resp.status = 400
    /\ resp.error = "Invalid voice"
    /\ checks = <<"text", "voice">>
    /\ ~CharacterOk(Fields(request))

(* C10: every authenticated, valid request ends with one response of       *)
(* status 200, 502, 504 or 500; no status request is made once the         *)
(* deadline has passed, so at most TIMEOUT / INTERVAL (rounded up) status  *)
(* requests are made; a response, once given, is never replaced.           *)
C10_RequestTerminates ==
    /\ (pc = "submit") ~> (Done /\ resp.status \in {200, 502, 504, 500})
    /\ [](pc = "sleep" => clock < deadline)
    /\ [](NumOps("poll") <= (TIMEOUT + INTERVAL - 1) \div INTERVAL)
    /\ [][resp.status # 0 => resp' = resp]_vars

C10_Witness ==
    /\ Done
    /\ resp.status = 504
    /\ NumOps("poll") = (TIMEOUT + INTERVAL - 1) \div INTERVAL

====
